---- MODULE Spec2Model ----
(***************************************************************************)
(* State-machine model of the ICPC scoreboard engine of src/main.cpp       *)
(* (class ICPCSystem).  One action per public command handler; the private *)
(* helpers update_team_stats, compare_teams and update_scoreboard are       *)
(* operators computed the way the code computes them.                      *)
(*                                                                         *)
(* Strings that the code compares with operator< (team names) are modelled *)
(* as sequences of character codes so that the lexicographic comparison is *)
(* computed, not assumed.  std::map is a function whose DOMAIN is the key  *)
(* set.  The text written to cout by the last command is the variable out. *)
(*                                                                         *)
(* Not modelled: START (stores duration_time, which is never read) and END *)
(* (leaves the command loop); neither touches the scoreboard state.        *)
(***************************************************************************)
EXTENDS Integers, Sequences, FiniteSets, TLC

VARIABLES teams, team_order, is_frozen, all_submissions, out

vars == <<teams, team_order, is_frozen, all_submissions, out>>

(***************************************************************************)
(* Bounds of the model and the input alphabets.                            *)
(***************************************************************************)
\* penalty charged per wrong submission before the first acceptance
WrongPenalty == 20

\* largest length of the global submission log all_submissions in the three
\* specifications: three teams on one problem, one team on two problems,
\* and two teams on two problems with the query commands
MaxSubs == 3
MaxLedgerSubs == 4
MaxQuerySubs == 2

\* team names as sequences of character codes
NameA == <<65>>
NameAA == <<65, 65>>
NameB == <<66>>
TeamNames == { NameA, NameAA, NameB }
TwoTeams == { NameA, NameB }
OneTeam == { NameA }
Problems == { "p1", "p2" }
OneProblem == { "p1" }
Statuses == { "Accepted", "Wrong_Answer" }
\* a wrong attempt followed by an acceptance at time 0 costs as much as an
\* acceptance at time WrongPenalty
Times == { 0, WrongPenalty }

(***************************************************************************)
(* Library behaviour used by the code.                                     *)
(***************************************************************************)
Min(a, b) == IF a < b THEN a ELSE b

\* std::string operator< : lexicographic on character codes, a proper
\* prefix is smaller
RECURSIVE StrLess(_, _)
StrLess(a, b) ==
    IF b = << >> THEN FALSE
    ELSE IF a = << >> THEN TRUE
    ELSE IF Head(a) # Head(b) THEN Head(a) < Head(b)
    ELSE StrLess(Tail(a), Tail(b))

EmptyMap == [k \in {} |-> 0]

\* std::map::operator[] as an rvalue: value-initialises a missing key
MapTouch(m, k) == [x \in DOMAIN m \cup {k} |-> IF x \in DOMAIN m THEN m[x] ELSE 0]

MapPut(m, k, v) == [x \in DOMAIN m \cup {k} |-> IF x = k THEN v ELSE m[x]]

Front(s) == SubSeq(s, 1, Len(s) - 1)

Last(s) == s[Len(s)]

RECURSIVE Reverse(_)
Reverse(s) == IF s = << >> THEN << >> ELSE Append(Reverse(Tail(s)), Head(s))

\* std::sort on at most 16 elements is an insertion sort: an element that
\* compares before the first one is moved to the front, otherwise it is
\* shifted left while it compares before its predecessor.
RECURSIVE LinearInsertInt(_, _)
LinearInsertInt(s, x) ==
    IF s # << >> /\ x < Last(s)
    THEN Append(LinearInsertInt(Front(s), x), Last(s))
    ELSE Append(s, x)

RECURSIVE SortAscInt(_)
SortAscInt(s) ==
    IF Len(s) <= 1 THEN s
    ELSE LET pre == SortAscInt(Front(s))
             x == Last(s)
         IN IF x < pre[1] THEN <<x>> \o pre ELSE LinearInsertInt(pre, x)

\* sort(v.rbegin(), v.rend()): ascending through the reverse iterators,
\* i.e. descending in the vector
SortDescending(s) == Reverse(SortAscInt(Reverse(s)))

(***************************************************************************)
(* struct Team / struct Submission                                         *)
(***************************************************************************)
Submission(team_name, problem_name, status, time) ==
    [team_name |-> team_name, problem_name |-> problem_name,
     status |-> status, time |-> time]

NewTeam(team_name) ==
    [name |-> team_name, solved_problems |-> 0, penalty_time |-> 0,
     wrong_submissions |-> EmptyMap, first_ac_time |-> EmptyMap,
     solve_times |-> << >>, submissions |-> << >>]

(***************************************************************************)
(* ICPCSystem::update_team_stats                                           *)
(***************************************************************************)
\* variant: an acceptance is counted even when the problem is already solved
update_team_stats_Recount(team, sub) ==
    LET p == sub.problem_name
        t1 == [team EXCEPT !.submissions = Append(@, sub)]
    IN IF sub.status = "Accepted"
       THEN LET ws == MapTouch(t1.wrong_submissions, p)
                problem_penalty == WrongPenalty * ws[p] + sub.time
            IN [t1 EXCEPT !.first_ac_time = MapPut(@, p, sub.time),
                          !.wrong_submissions = ws,
                          !.penalty_time = @ + problem_penalty,
                          !.solved_problems = @ + 1,
                          !.solve_times = SortDescending(Append(@, sub.time))]
       ELSE [t1 EXCEPT !.wrong_submissions =
                 MapPut(@, p, MapTouch(t1.wrong_submissions, p)[p] + 1)]

\* variant: the wrong-submission counter is shared by all problems of a team
update_team_stats_SharedWrong(team, sub) ==
    LET p == sub.problem_name
        t1 == [team EXCEPT !.submissions = Append(@, sub)]
        shared == "p1"
    IN IF sub.status = "Accepted"
       THEN IF p \notin DOMAIN t1.first_ac_time
            THEN LET ws == MapTouch(t1.wrong_submissions, shared)
                     problem_penalty == WrongPenalty * ws[shared] + sub.time
                 IN [t1 EXCEPT !.first_ac_time = MapPut(@, p, sub.time),
                               !.wrong_submissions = ws,
                               !.penalty_time = @ + problem_penalty,
                               !.solved_problems = @ + 1,
                               !.solve_times = SortDescending(Append(@, sub.time))]
            ELSE t1
       ELSE [t1 EXCEPT !.wrong_submissions =
                 MapPut(@, shared, MapTouch(t1.wrong_submissions, shared)[shared] + 1)]

\* variant: wrong submissions cost nothing
update_team_stats_NoWrongPenalty(team, sub) ==
    LET p == sub.problem_name
        t1 == [team EXCEPT !.submissions = Append(@, sub)]
    IN IF sub.status = "Accepted"
       THEN IF p \notin DOMAIN t1.first_ac_time
            THEN [t1 EXCEPT !.first_ac_time = MapPut(@, p, sub.time),
                            !.wrong_submissions = MapTouch(@, p),
                            !.penalty_time = @ + sub.time,
                            !.solved_problems = @ + 1,
                            !.solve_times = SortDescending(Append(@, sub.time))]
            ELSE t1
       ELSE [t1 EXCEPT !.wrong_submissions =
                 MapPut(@, p, MapTouch(t1.wrong_submissions, p)[p] + 1)]

\* variant: the new solve time is appended and the collection is not re-sorted
update_team_stats_NoSort(team, sub) ==
    LET p == sub.problem_name
        t1 == [team EXCEPT !.submissions = Append(@, sub)]
    IN IF sub.status = "Accepted"
       THEN IF p \notin DOMAIN t1.first_ac_time
            THEN LET ws == MapTouch(t1.wrong_submissions, p)
                     problem_penalty == WrongPenalty * ws[p] + sub.time
                 IN [t1 EXCEPT !.first_ac_time = MapPut(@, p, sub.time),
                               !.wrong_submissions = ws,
                               !.penalty_time = @ + problem_penalty,
                               !.solved_problems = @ + 1,
                               !.solve_times = Append(@, sub.time)]
            ELSE t1
       ELSE [t1 EXCEPT !.wrong_submissions =
                 MapPut(@, p, MapTouch(t1.wrong_submissions, p)[p] + 1)]

\* variant: the wrong-submission counter of a problem is cleared when the
\* problem is solved
update_team_stats_ClearWrong(team, sub) ==
    LET p == sub.problem_name
        t1 == [team EXCEPT !.submissions = Append(@, sub)]
    IN IF sub.status = "Accepted"
       THEN IF p \notin DOMAIN t1.first_ac_time
            THEN LET ws == MapTouch(t1.wrong_submissions, p)
                     problem_penalty == WrongPenalty * ws[p] + sub.time
                 IN [t1 EXCEPT !.first_ac_time = MapPut(@, p, sub.time),
                               !.wrong_submissions = MapPut(ws, p, 0),
                               !.penalty_time = @ + problem_penalty,
                               !.solved_problems = @ + 1,
                               !.solve_times = SortDescending(Append(@, sub.time))]
            ELSE t1
       ELSE [t1 EXCEPT !.wrong_submissions =
                 MapPut(@, p, MapTouch(t1.wrong_submissions, p)[p] + 1)]

update_team_stats(team, sub) ==
    LET p == sub.problem_name
        t1 == [team EXCEPT !.submissions = Append(@, sub)]
    IN IF sub.status = "Accepted"
       THEN IF p \notin DOMAIN t1.first_ac_time
            THEN LET ws == MapTouch(t1.wrong_submissions, p)
                     wrong_count == ws[p]
                     problem_penalty == WrongPenalty * wrong_count + sub.time
                 IN [t1 EXCEPT !.first_ac_time = MapPut(@, p, sub.time),
                               !.wrong_submissions = ws,
                               !.penalty_time = @ + problem_penalty,
                               !.solved_problems = @ + 1,
                               !.solve_times = SortDescending(Append(@, sub.time))]
            ELSE t1
       ELSE [t1 EXCEPT !.wrong_submissions =
                 MapPut(@, p, MapTouch(t1.wrong_submissions, p)[p] + 1)]

(***************************************************************************)
(* ICPCSystem::compare_teams, on a given teams map                         *)
(***************************************************************************)
\* the loop over the common prefix of the two solve_times vectors: the first
\* index at which they differ, or 0
FirstDiff(sa, sb) ==
    LET n == Min(Len(sa), Len(sb))
        D == { i \in 1..n : sa[i] # sb[i] }
    IN IF D = {} THEN 0 ELSE CHOOSE i \in D : \A j \in D : i <= j

\* variant: no final tie-break on the team name
compare_teams_NoTieBreak(ts, a, b) ==
    LET teamA == ts[a]
        teamB == ts[b]
        d == FirstDiff(teamA.solve_times, teamB.solve_times)
    IN IF teamA.solved_problems # teamB.solved_problems
       THEN teamA.solved_problems > teamB.solved_problems
       ELSE IF teamA.penalty_time # teamB.penalty_time
       THEN teamA.penalty_time < teamB.penalty_time
       ELSE IF d # 0
       THEN teamA.solve_times[d] < teamB.solve_times[d]
       ELSE FALSE

\* variant: the larger solve time wins the third key
compare_teams_LargerTimeFirst(ts, a, b) ==
    LET teamA == ts[a]
        teamB == ts[b]
        d == FirstDiff(teamA.solve_times, teamB.solve_times)
    IN IF teamA.solved_problems # teamB.solved_problems
       THEN teamA.solved_problems > teamB.solved_problems
       ELSE IF teamA.penalty_time # teamB.penalty_time
       THEN teamA.penalty_time < teamB.penalty_time
       ELSE IF d # 0
       THEN teamA.solve_times[d] > teamB.solve_times[d]
       ELSE StrLess(a, b)

compare_teams(ts, a, b) ==
    LET teamA == ts[a]
        teamB == ts[b]
        d == FirstDiff(teamA.solve_times, teamB.solve_times)
    IN IF teamA.solved_problems # teamB.solved_problems
       THEN teamA.solved_problems > teamB.solved_problems
       ELSE IF teamA.penalty_time # teamB.penalty_time
       THEN teamA.penalty_time < teamB.penalty_time
       ELSE IF d # 0
       THEN teamA.solve_times[d] < teamB.solve_times[d]
       ELSE StrLess(a, b)

(***************************************************************************)
(* ICPCSystem::update_scoreboard: std::sort of team_order by compare_teams *)
(***************************************************************************)
RECURSIVE LinearInsertTeam(_, _, _)
LinearInsertTeam(ts, s, x) ==
    IF s # << >> /\ compare_teams(ts, x, Last(s))
    THEN Append(LinearInsertTeam(ts, Front(s), x), Last(s))
    ELSE Append(s, x)

RECURSIVE SortTeams(_, _)
SortTeams(ts, s) ==
    IF Len(s) <= 1 THEN s
    ELSE LET pre == SortTeams(ts, Front(s))
             x == Last(s)
         IN IF compare_teams(ts, x, pre[1])
            THEN <<x>> \o pre
            ELSE LinearInsertTeam(ts, pre, x)

\* variant: the sorted order comes out back to front
update_scoreboard_Reversed(ts, order) == Reverse(SortTeams(ts, order))

update_scoreboard(ts, order) == SortTeams(ts, order)

(***************************************************************************)
(* Output of one command: the message line, the optional warning line of   *)
(* query_ranking, the standings rows of scroll, the rank of query_ranking  *)
(* and the submission line of query_submission.                            *)
(***************************************************************************)
NoName == << >>

Output(msg) ==
    [msg |-> msg, warning |-> FALSE, rows |-> << >>,
     team |-> NoName, ranking |-> 0, found |-> << >>]

MsgAddOK == "[Info]Add successfully."
MsgAddDup == "[Error]Add failed: duplicated team name."
MsgSubmitOK == "[Info]Submit successfully."
MsgSubmitUnknown == "[Error]Submit failed: cannot find the team."
MsgFlush == "[Info]Flush scoreboard."
MsgFreezeOK == "[Info]Freeze scoreboard."
MsgFreezeFail == "[Error]Freeze failed: scoreboard has been frozen."
MsgScrollOK == "[Info]Scroll scoreboard."
MsgScrollFail == "[Error]Scroll failed: scoreboard has not been frozen."
MsgRankUnknown == "[Error]Query ranking failed: cannot find the team."
MsgRanking == "NOW AT RANKING"
MsgQueryUnknown == "[Error]Query submission failed: cannot find the team."
MsgQueryDone == "[Info]Complete query submission."

(***************************************************************************)
(* Initial state: a freshly constructed ICPCSystem, nothing printed yet.   *)
(***************************************************************************)
Init ==
    /\ teams = [n \in {} |-> NewTeam(n)]
    /\ team_order = << >>
    /\ is_frozen = FALSE
    /\ all_submissions = << >>
    /\ out = Output("")

(***************************************************************************)
(* Command handlers                                                        *)
(***************************************************************************)
\* variant: the duplicate branch reports the error but does not return
add_team_NoReturn(team_name) ==
    IF team_name \in DOMAIN teams
    THEN /\ out' = Output(MsgAddDup)
         /\ team_order' = Append(team_order, team_name)
         /\ UNCHANGED <<teams, is_frozen, all_submissions>>
    ELSE /\ teams' = [n \in DOMAIN teams \cup {team_name} |->
                         IF n = team_name THEN NewTeam(team_name) ELSE teams[n]]
         /\ team_order' = Append(team_order, team_name)
         /\ out' = Output(MsgAddOK)
         /\ UNCHANGED <<is_frozen, all_submissions>>

\* variant: a new team gets its ledger but is not put on the scoreboard
add_team_Unlisted(team_name) ==
    IF team_name \in DOMAIN teams
    THEN /\ out' = Output(MsgAddDup)
         /\ UNCHANGED <<teams, team_order, is_frozen, all_submissions>>
    ELSE /\ teams' = [n \in DOMAIN teams \cup {team_name} |->
                         IF n = team_name THEN NewTeam(team_name) ELSE teams[n]]
         /\ out' = Output(MsgAddOK)
         /\ UNCHANGED <<team_order, is_frozen, all_submissions>>

add_team(team_name) ==
    IF team_name \in DOMAIN teams
    THEN /\ out' = Output(MsgAddDup)
         /\ UNCHANGED <<teams, team_order, is_frozen, all_submissions>>
    ELSE /\ teams' = [n \in DOMAIN teams \cup {team_name} |->
                         IF n = team_name THEN NewTeam(team_name) ELSE teams[n]]
         /\ team_order' = Append(team_order, team_name)
         /\ out' = Output(MsgAddOK)
         /\ UNCHANGED <<is_frozen, all_submissions>>

\* variant: the scoreboard is refreshed after every submission
submit_Resort(team_name, problem_name, status, time) ==
    IF team_name \notin DOMAIN teams
    THEN /\ out' = Output(MsgSubmitUnknown)
         /\ UNCHANGED <<teams, team_order, is_frozen, all_submissions>>
    ELSE LET sub == Submission(team_name, problem_name, status, time)
         IN /\ all_submissions' = Append(all_submissions, sub)
            /\ teams' = [teams EXCEPT ![team_name] = update_team_stats(@, sub)]
            /\ team_order' = update_scoreboard(teams', team_order)
            /\ out' = Output(MsgSubmitOK)
            /\ UNCHANGED is_frozen

\* variant: no lookup before teams[team_name], which then creates the entry
submit_NoLookup(team_name, problem_name, status, time) ==
    LET sub == Submission(team_name, problem_name, status, time)
        ts == [n \in DOMAIN teams \cup {team_name} |->
                 IF n \in DOMAIN teams THEN teams[n]
                 ELSE [NewTeam(team_name) EXCEPT !.name = << >>]]
    IN /\ all_submissions' = Append(all_submissions, sub)
       /\ teams' = [ts EXCEPT ![team_name] = update_team_stats(@, sub)]
       /\ out' = Output(MsgSubmitOK)
       /\ UNCHANGED <<team_order, is_frozen>>

submit(team_name, problem_name, status, time) ==
    IF team_name \notin DOMAIN teams
    THEN /\ out' = Output(MsgSubmitUnknown)
         /\ UNCHANGED <<teams, team_order, is_frozen, all_submissions>>
    ELSE LET sub == Submission(team_name, problem_name, status, time)
         IN /\ all_submissions' = Append(all_submissions, sub)
            /\ teams' = [teams EXCEPT ![team_name] = update_team_stats(@, sub)]
            /\ out' = Output(MsgSubmitOK)
            /\ UNCHANGED <<team_order, is_frozen>>

\* variant: a flush also lifts the freeze
flush_scoreboard_Unfreeze ==
    /\ team_order' = update_scoreboard(teams, team_order)
    /\ is_frozen' = FALSE
    /\ out' = Output(MsgFlush)
    /\ UNCHANGED <<teams, all_submissions>>

\* variant: a flush leaves the order alone while the scoreboard is frozen
flush_scoreboard_SkipFrozen ==
    /\ team_order' = IF is_frozen THEN team_order
                     ELSE update_scoreboard(teams, team_order)
    /\ out' = Output(MsgFlush)
    /\ UNCHANGED <<teams, is_frozen, all_submissions>>

flush_scoreboard ==
    /\ team_order' = update_scoreboard(teams, team_order)
    /\ out' = Output(MsgFlush)
    /\ UNCHANGED <<teams, is_frozen, all_submissions>>

freeze ==
    IF is_frozen
    THEN /\ out' = Output(MsgFreezeFail)
         /\ UNCHANGED <<teams, team_order, is_frozen, all_submissions>>
    ELSE /\ is_frozen' = TRUE
         /\ out' = Output(MsgFreezeOK)
         /\ UNCHANGED <<teams, team_order, all_submissions>>

ScoreboardRows(ts, order) ==
    [i \in 1..Len(order) |->
        [name |-> ts[order[i]].name, rank |-> i,
         solved |-> ts[order[i]].solved_problems,
         penalty |-> ts[order[i]].penalty_time]]

\* variant: the not-frozen branch reports the error but does not return
scroll_NoReturn ==
    /\ is_frozen' = FALSE
    /\ team_order' = update_scoreboard(teams, team_order)
    /\ out' = [Output(IF is_frozen THEN MsgScrollOK ELSE MsgScrollFail) EXCEPT
                  !.rows = ScoreboardRows(teams, team_order')]
    /\ UNCHANGED <<teams, all_submissions>>

\* variant: the standings are printed before the order is refreshed
scroll_PrintStale ==
    IF ~is_frozen
    THEN /\ out' = Output(MsgScrollFail)
         /\ UNCHANGED <<teams, team_order, is_frozen, all_submissions>>
    ELSE /\ is_frozen' = FALSE
         /\ team_order' = update_scoreboard(teams, team_order)
         /\ out' = [Output(MsgScrollOK) EXCEPT
                       !.rows = ScoreboardRows(teams, team_order)]
         /\ UNCHANGED <<teams, all_submissions>>

scroll ==
    IF ~is_frozen
    THEN /\ out' = Output(MsgScrollFail)
         /\ UNCHANGED <<teams, team_order, is_frozen, all_submissions>>
    ELSE /\ is_frozen' = FALSE
         /\ team_order' = update_scoreboard(teams, team_order)
         /\ out' = [Output(MsgScrollOK) EXCEPT
                       !.rows = ScoreboardRows(teams, team_order')]
         /\ UNCHANGED <<teams, all_submissions>>

\* the loop of query_ranking: the 1-based position of the first occurrence of
\* team_name in the order, 0 when the loop ends without printing
RankIn(order, team_name) ==
    LET H == { i \in 1..Len(order) : order[i] = team_name }
    IN IF H = {} THEN 0 ELSE CHOOSE i \in H : \A j \in H : i <= j

\* variant: on a frozen scoreboard only the warning is printed
query_ranking_WarningOnly(team_name) ==
    /\ IF team_name \notin DOMAIN teams
       THEN out' = Output(MsgRankUnknown)
       ELSE out' = [Output(MsgRanking) EXCEPT
                       !.warning = is_frozen,
                       !.team = IF is_frozen THEN NoName ELSE team_name,
                       !.ranking = IF is_frozen THEN 0
                                   ELSE RankIn(team_order, team_name)]
    /\ UNCHANGED <<teams, team_order, is_frozen, all_submissions>>

\* variant: the scoreboard is refreshed before the rank is looked up
query_ranking_Refresh(team_name) ==
    IF team_name \notin DOMAIN teams
    THEN /\ out' = Output(MsgRankUnknown)
         /\ UNCHANGED <<teams, team_order, is_frozen, all_submissions>>
    ELSE /\ team_order' = update_scoreboard(teams, team_order)
         /\ out' = [Output(MsgRanking) EXCEPT
                       !.warning = is_frozen,
                       !.team = team_name,
                       !.ranking = RankIn(team_order', team_name)]
         /\ UNCHANGED <<teams, is_frozen, all_submissions>>

query_ranking(team_name) ==
    /\ IF team_name \notin DOMAIN teams
       THEN out' = Output(MsgRankUnknown)
       ELSE out' = [Output(MsgRanking) EXCEPT
                       !.warning = is_frozen,
                       !.team = team_name,
                       !.ranking = RankIn(team_order, team_name)]
    /\ UNCHANGED <<teams, team_order, is_frozen, all_submissions>>

Matches(sub, problem_name, status) ==
    LET problem_match == (problem_name = "ALL") \/ (sub.problem_name = problem_name)
        status_match == (status = "ALL") \/ (sub.status = status)
    IN problem_match /\ status_match

\* the reverse scan of query_submission: the matching entry of largest index,
\* as a sequence of at most one submission
\* variant: the matching entry with the largest timestamp is reported
LastMatching_LatestTime(submissions, problem_name, status) ==
    LET M == { i \in 1..Len(submissions) :
                  Matches(submissions[i], problem_name, status) }
    IN IF M = {} THEN << >>
       ELSE << submissions[CHOOSE i \in M : \A j \in M :
                   \/ submissions[j].time < submissions[i].time
                   \/ submissions[j].time = submissions[i].time /\ j <= i] >>

LastMatching(submissions, problem_name, status) ==
    LET M == { i \in 1..Len(submissions) :
                  Matches(submissions[i], problem_name, status) }
    IN IF M = {} THEN << >>
       ELSE << submissions[CHOOSE i \in M : \A j \in M : j <= i] >>

\* variant: on a frozen scoreboard the submissions are withheld
query_submission_HideFrozen(team_name, problem_name, status) ==
    /\ IF team_name \notin DOMAIN teams
       THEN out' = Output(MsgQueryUnknown)
       ELSE out' = [Output(MsgQueryDone) EXCEPT
                       !.team = team_name,
                       !.found = IF is_frozen THEN << >>
                                 ELSE LastMatching(teams[team_name].submissions,
                                                   problem_name, status)]
    /\ UNCHANGED <<teams, team_order, is_frozen, all_submissions>>

query_submission(team_name, problem_name, status) ==
    /\ IF team_name \notin DOMAIN teams
       THEN out' = Output(MsgQueryUnknown)
       ELSE out' = [Output(MsgQueryDone) EXCEPT
                       !.team = team_name,
                       !.found = LastMatching(teams[team_name].submissions,
                                              problem_name, status)]
    /\ UNCHANGED <<teams, team_order, is_frozen, all_submissions>>

(***************************************************************************)
(* The command loop of main(): one command per step, its arguments drawn   *)
(* from the given alphabets.  A SUBMIT for a registered team is issued     *)
(* only while the global log holds fewer than cap entries.                 *)
(***************************************************************************)
Updates(N, P, S, T, cap) ==
    \/ \E n \in N : add_team(n)
    \/ \E n \in N, p \in P, s \in S, t \in T :
          /\ n \in DOMAIN teams => Len(all_submissions) < cap
          /\ submit(n, p, s, t)
    \/ flush_scoreboard
    \/ freeze
    \/ scroll

Queries(N, P, S) ==
    \/ \E n \in N : query_ranking(n)
    \/ \E n \in N, p \in P \cup {"ALL"}, s \in S \cup {"ALL"} :
          query_submission(n, p, s)

\* every command; two teams, two problems, times in any order
Next ==
    \/ Updates(TwoTeams, Problems, Statuses, Times, MaxQuerySubs)
    \/ Queries(TwoTeams, Problems, Statuses)

Spec == Init /\ [][Next]_vars

\* the commands that change the ledgers and the scoreboard; one team, two
\* problems, times in any order, longer submission logs
NextLedger == Updates(OneTeam, Problems, Statuses, Times, MaxLedgerSubs)

SpecLedger == Init /\ [][NextLedger]_vars

\* the times a caller that keeps the input stream non-decreasing in time may
\* send next
LaterTimes ==
    { t \in Times : all_submissions = << >> \/ t >= Last(all_submissions).time }

\* the same commands; three teams, one problem, times non-decreasing along
\* the input stream
NextTeams == Updates(TeamNames, OneProblem, Statuses, LaterTimes, MaxSubs)

SpecTeams == Init /\ [][NextTeams]_vars

\* every command; only NameA registers and submits, NameB is queried but
\* never known; two problems
NextQuery ==
    \/ Updates(OneTeam, Problems, Statuses, Times, MaxSubs)
    \/ Queries(TwoTeams, Problems, Statuses)

SpecQuery == Init /\ [][NextQuery]_vars

\* every command; two teams, one problem
NextPair ==
    \/ Updates(TwoTeams, OneProblem, Statuses, Times, MaxQuerySubs)
    \/ Queries(TwoTeams, OneProblem, Statuses)

SpecPair == Init /\ [][NextPair]_vars

\* the submission times of the two-team example
ScenarioTimes == { 5, 10, 15 }

\* the commands that change the ledgers and the scoreboard; two teams, one
\* problem, the times of the example in any order
NextScenario == Updates(TwoTeams, OneProblem, Statuses, ScenarioTimes, MaxSubs)

SpecScenario == Init /\ [][NextScenario]_vars

(***************************************************************************)
(* Quantities read off a team's submission history, used to state the      *)
(* properties independently of the counters the code maintains.            *)
(***************************************************************************)
AcceptedAt(h, p) ==
    { i \in 1..Len(h) : h[i].problem_name = p /\ h[i].status = "Accepted" }

FirstAcceptedAt(h, p) ==
    CHOOSE i \in AcceptedAt(h, p) : \A j \in AcceptedAt(h, p) : i <= j

SolvedIn(h) == { p \in { h[i].problem_name : i \in 1..Len(h) } : AcceptedAt(h, p) # {} }

WrongBefore(h, p) ==
    Cardinality({ i \in 1..(FirstAcceptedAt(h, p) - 1) :
                     h[i].problem_name = p /\ h[i].status # "Accepted" })

Contribution(h, p) == 20 * WrongBefore(h, p) + h[FirstAcceptedAt(h, p)].time

RECURSIVE SumContributions(_, _)
SumContributions(h, ps) ==
    IF ps = {} THEN 0
    ELSE LET p == CHOOSE q \in ps : TRUE
         IN Contribution(h, p) + SumContributions(h, ps \ {p})

\* the step appended one submission to the history of team n
SubmittedBy(n) ==
    /\ n \in DOMAIN teams
    /\ teams'[n].submissions # teams[n].submissions

StatsUnchanged(n) ==
    /\ teams'[n].solved_problems = teams[n].solved_problems
    /\ teams'[n].penalty_time = teams[n].penalty_time
    /\ teams'[n].solve_times = teams[n].solve_times

(***************************************************************************)
(* C1: in a Submit step for (team, problem), the solved count, the total   *)
(* penalty and the solve-time collection of the team change only when the  *)
(* submission is the first accepted one for that pair in the team's        *)
(* history (the solved count and the collection then grow by one); any     *)
(* other submission, of any status, leaves the three fields unchanged.     *)
(***************************************************************************)
C1_Step ==
    \A n \in DOMAIN teams :
        SubmittedBy(n) =>
            LET h == teams[n].submissions
                sub == Last(teams'[n].submissions)
                first == sub.status = "Accepted" /\ AcceptedAt(h, sub.problem_name) = {}
            IN /\ teams'[n].submissions = Append(h, sub)
               /\ IF first
                  THEN /\ teams'[n].solved_problems = teams[n].solved_problems + 1
                       /\ Len(teams'[n].solve_times) = Len(teams[n].solve_times) + 1
                  ELSE StatsUnchanged(n)

C1_FirstAcceptedOnly == [][C1_Step]_vars

\* a team has two accepted submissions for one problem and a rejected one
\* after the first
C1_Witness ==
    \E n \in DOMAIN teams :
        LET h == teams[n].submissions
        IN /\ Len(h) = 3
           /\ h[1].status = "Accepted" /\ h[2].status # "Accepted"
           /\ h[3].status = "Accepted"
           /\ h[1].problem_name = h[2].problem_name
           /\ h[1].problem_name = h[3].problem_name
           /\ h[3].time > h[1].time
           /\ teams[n].solved_problems = 1

(***************************************************************************)
(* C2: each team's total penalty is the sum, over the problems it has      *)
(* solved, of 20 * (rejected submissions for the problem before its first  *)
(* accepted one in the history) + (time of that first accepted one), and   *)
(* the contribution of a solved problem is the same after every step.      *)
(***************************************************************************)
C2_PenaltyIsSum ==
    \A n \in DOMAIN teams :
        teams[n].penalty_time =
            SumContributions(teams[n].submissions, SolvedIn(teams[n].submissions))

C2_ContributionFixed ==
    \A n \in DOMAIN teams :
        \A p \in SolvedIn(teams[n].submissions) :
            /\ p \in SolvedIn(teams'[n].submissions)
            /\ Contribution(teams'[n].submissions, p) =
                  Contribution(teams[n].submissions, p)

C2_Penalty == [] C2_PenaltyIsSum /\ [][C2_ContributionFixed]_vars

\* a team solved two problems, one of them after a rejected attempt on it
C2_Witness ==
    \E n \in DOMAIN teams :
        LET h == teams[n].submissions
        IN /\ Cardinality(SolvedIn(h)) = 2
           /\ \E p \in SolvedIn(h) : WrongBefore(h, p) = 1
           /\ teams[n].penalty_time > 20

(***************************************************************************)
(* C3: on the ledgers of every reachable state the comparator is a strict  *)
(* total order on the registered teams: no team ranks before itself, of    *)
(* two distinct teams exactly one ranks before the other, and the relation *)
(* is transitive.                                                          *)
(***************************************************************************)
Before(a, b) == compare_teams(teams, a, b)

C3_StrictTotalOrder ==
    LET R == DOMAIN teams
    IN /\ \A a \in R : ~Before(a, a)
       /\ \A a \in R, b \in R : a # b => (Before(a, b) <=> ~Before(b, a))
       /\ \A a \in R, b \in R, c \in R :
             Before(a, b) /\ Before(b, c) => Before(a, c)

SameScore(a, b) ==
    /\ teams[a].solved_problems = teams[b].solved_problems
    /\ teams[a].penalty_time = teams[b].penalty_time

\* three registered teams, two of them tied on solved count, penalty and
\* solve times (ordered by name only) and the third ahead of both
C3_Witness ==
    /\ Cardinality(DOMAIN teams) = 3
    /\ \E a \in DOMAIN teams, b \in DOMAIN teams, c \in DOMAIN teams :
          /\ a # b
          /\ SameScore(a, b)
          /\ teams[a].solve_times = teams[b].solve_times
          /\ teams[a].solved_problems = 1
          /\ teams[c].solved_problems = 1
          /\ teams[c].penalty_time < teams[a].penalty_time

(***************************************************************************)
(* C4: a ranks before b exactly when the keys decide so in priority order: *)
(* more problems solved; then less penalty; then the smaller value at the  *)
(* first position, within the common length, where the two descending      *)
(* solve-time collections differ; then the lexicographically smaller name. *)
(* A key is consulted only when all earlier keys tie.                      *)
(***************************************************************************)
Descending(s) == \A i \in 1..Len(s), j \in 1..Len(s) : i < j => s[i] >= s[j]

CommonLen(a, b) == Min(Len(teams[a].solve_times), Len(teams[b].solve_times))

TimesTieUpTo(a, b, k) ==
    \A i \in 1..k : teams[a].solve_times[i] = teams[b].solve_times[i]

LexSmaller(a, b) ==
    \E k \in 1..Len(b) :
        /\ \A i \in 1..(k - 1) : i <= Len(a) /\ a[i] = b[i]
        /\ k > Len(a) \/ a[k] < b[k]

RanksBefore(a, b) ==
    \/ teams[a].solved_problems > teams[b].solved_problems
    \/ /\ teams[a].solved_problems = teams[b].solved_problems
       /\ teams[a].penalty_time < teams[b].penalty_time
    \/ /\ SameScore(a, b)
       /\ \E k \in 1..CommonLen(a, b) :
             /\ TimesTieUpTo(a, b, k - 1)
             /\ teams[a].solve_times[k] < teams[b].solve_times[k]
    \/ /\ SameScore(a, b)
       /\ TimesTieUpTo(a, b, CommonLen(a, b))
       /\ LexSmaller(a, b)

CoreUnchanged == UNCHANGED <<teams, team_order, is_frozen, all_submissions>>

Sorted(order) ==
    \A i \in 1..Len(order), j \in 1..Len(order) :
        i < j => compare_teams(teams, order[i], order[j])

(***************************************************************************)
(* C5 as stated: the visible order changes only in a Flush or a successful *)
(* Scroll step; no other step, RegisterTeam included, changes it.          *)
(***************************************************************************)
C5_OnlyFlushOrScroll ==
    [][team_order' # team_order => out'.msg \in {MsgFlush, MsgScrollOK}]_vars

(***************************************************************************)
(* C5 amended: the visible order changes only in a Flush, a successful     *)
(* Scroll or a successful RegisterTeam, and a successful RegisterTeam only *)
(* appends the new name after the teams already there; Submit, Freeze, a   *)
(* rejected RegisterTeam and both queries never change it.                 *)
(***************************************************************************)
C5_Step ==
    /\ team_order' # team_order => out'.msg \in {MsgFlush, MsgScrollOK, MsgAddOK}
    /\ out'.msg = MsgAddOK =>
          /\ Len(team_order') = Len(team_order) + 1
          /\ SubSeq(team_order', 1, Len(team_order)) = team_order
          /\ Last(team_order') \notin DOMAIN teams

C5_OrderChanges == [][C5_Step]_vars

\* a submission has just been accepted into the ledgers and the visible
\* order no longer agrees with the comparator
C5_Witness ==
    /\ out.msg = MsgSubmitOK
    /\ Len(team_order) = 2
    /\ ~Sorted(team_order)

(***************************************************************************)
(* C6: a Freeze on a frozen scoreboard reports AlreadyFrozen and a Scroll  *)
(* on an unfrozen one reports NotFrozen; either leaves the freeze flag,    *)
(* the visible order, every ledger and the global log unchanged and emits  *)
(* no standings.                                                           *)
(***************************************************************************)
C6_Step ==
    /\ (is_frozen /\ out'.msg \in {MsgFreezeOK, MsgFreezeFail}) =>
          out'.msg = MsgFreezeFail
    /\ (~is_frozen /\ out'.msg \in {MsgScrollOK, MsgScrollFail}) =>
          out'.msg = MsgScrollFail
    /\ out'.msg = MsgFreezeFail => is_frozen /\ CoreUnchanged /\ out'.rows = << >>
    /\ out'.msg = MsgScrollFail => ~is_frozen /\ CoreUnchanged /\ out'.rows = << >>

C6_Rejections == [][C6_Step]_vars

\* a Scroll has just been rejected while the visible order was stale
C6_Witness ==
    /\ out.msg = MsgScrollFail
    /\ ~is_frozen
    /\ ~Sorted(team_order)

(***************************************************************************)
(* C7: the freeze flag is false initially, turns true exactly in a         *)
(* successful Freeze (issued while false) and false exactly in a           *)
(* successful Scroll (issued while true); no other command alters it, so   *)
(* successful Freeze and Scroll alternate, Freeze first.                   *)
(***************************************************************************)
C7_Step ==
    /\ out'.msg = MsgFreezeOK <=> (~is_frozen /\ is_frozen')
    /\ out'.msg = MsgScrollOK <=> (is_frozen /\ ~is_frozen')

C7_FreezeFlag == (is_frozen = FALSE) /\ [][C7_Step]_vars

\* a Flush has just run on a frozen scoreboard that holds submissions
C7_Witness ==
    /\ out.msg = MsgFlush
    /\ is_frozen
    /\ all_submissions # << >>

(***************************************************************************)
(* C8: RegisterTeam of a registered name reports DuplicateTeam and changes *)
(* no ledger, nor the visible order, nor the freeze flag; RegisterTeam of  *)
(* a new name succeeds and creates a ledger with solved count 0, penalty   *)
(* 0, no solve times, no wrong counts and an empty history, every other    *)
(* ledger staying as it was.                                               *)
(***************************************************************************)
IsEmptyLedger(team, n) ==
    /\ team.name = n
    /\ team.solved_problems = 0
    /\ team.penalty_time = 0
    /\ team.solve_times = << >>
    /\ DOMAIN team.wrong_submissions = {}
    /\ DOMAIN team.first_ac_time = {}
    /\ team.submissions = << >>

C8_Step ==
    \A n \in TeamNames :
        add_team(n) =>
            IF n \in DOMAIN teams
            THEN out'.msg = MsgAddDup /\ CoreUnchanged
            ELSE /\ out'.msg = MsgAddOK
                 /\ DOMAIN teams' = DOMAIN teams \cup {n}
                 /\ IsEmptyLedger(teams'[n], n)
                 /\ \A m \in DOMAIN teams : teams'[m] = teams[m]
                 /\ is_frozen' = is_frozen
                 /\ all_submissions' = all_submissions

C8_Register == [][C8_Step]_vars

\* a registration has just been rejected for a team that already has a
\* solved problem, on a frozen scoreboard
C8_Witness ==
    /\ out.msg = MsgAddDup
    /\ is_frozen
    /\ \E n \in DOMAIN teams : teams[n].solved_problems = 1

(***************************************************************************)
(* C9: Submit for an unregistered team reports UnknownTeam and creates or  *)
(* changes no ledger, does not extend the global log and leaves the        *)
(* visible order and the freeze flag alone; Submit for a registered team   *)
(* succeeds whether frozen or not, appends the submission to that team's   *)
(* history and to the global log whatever its status, and changes no other *)
(* team's ledger.                                                          *)
(***************************************************************************)
C9_Step ==
    \A n \in TeamNames, p \in Problems, s \in Statuses, t \in Times :
        submit(n, p, s, t) =>
            IF n \notin DOMAIN teams
            THEN out'.msg = MsgSubmitUnknown /\ CoreUnchanged
            ELSE /\ out'.msg = MsgSubmitOK
                 /\ DOMAIN teams' = DOMAIN teams
                 /\ teams'[n].submissions =
                       Append(teams[n].submissions, Submission(n, p, s, t))
                 /\ all_submissions' =
                       Append(all_submissions, Submission(n, p, s, t))
                 /\ \A m \in DOMAIN teams \ {n} : teams'[m] = teams[m]
                 /\ team_order' = team_order
                 /\ is_frozen' = is_frozen

C9_Submit == [][C9_Step]_vars

\* a submission for an unregistered team has just been rejected while the
\* log already holds a submission of a registered one
C9_Witness ==
    /\ out.msg = MsgSubmitUnknown
    /\ all_submissions # << >>
    /\ Cardinality(DOMAIN teams) = 1

(***************************************************************************)
(* C10: right after a Flush, frozen or not, and right after a successful   *)
(* Scroll, the visible order is sorted by the comparator on the current    *)
(* ledgers: the team at position i ranks before the team at position j for *)
(* all i < j.                                                              *)
(***************************************************************************)
C10_SortedAfterTrigger ==
    out.msg \in {MsgFlush, MsgScrollOK} => Sorted(team_order)

\* a Flush on a frozen scoreboard of three teams has put a team with a
\* solved problem ahead of a team with none and a smaller name
C10_Witness ==
    /\ out.msg = MsgFlush
    /\ is_frozen
    /\ Len(team_order) = 3
    /\ teams[team_order[1]].solved_problems = 1
    /\ teams[team_order[2]].solved_problems = 0
    /\ StrLess(team_order[2], team_order[1])

(***************************************************************************)
(* C11: a successful Scroll prints one row per registered team, in the new *)
(* visible order, row i carrying rank i and the team's current solved      *)
(* count and penalty; no team is missing and none is listed twice.         *)
(***************************************************************************)
C11_ScrollRows ==
    out.msg = MsgScrollOK =>
        /\ Len(out.rows) = Cardinality(DOMAIN teams)
        /\ { out.rows[i].name : i \in 1..Len(out.rows) } = DOMAIN teams
        /\ \A i \in 1..Len(out.rows) :
              /\ out.rows[i].name = team_order[i]
              /\ out.rows[i].rank = i
              /\ out.rows[i].solved = teams[team_order[i]].solved_problems
              /\ out.rows[i].penalty = teams[team_order[i]].penalty_time

\* a Scroll has just printed three rows, the first for a team with a solved
\* problem and a penalty, the last for a team with none
C11_Witness ==
    /\ out.msg = MsgScrollOK
    /\ Len(out.rows) = 3
    /\ out.rows[1].solved = 1
    /\ out.rows[1].penalty = 20
    /\ out.rows[3].solved = 0
    /\ StrLess(out.rows[3].name, out.rows[1].name)

(***************************************************************************)
(* C12: QueryRank of an unregistered team reports UnknownTeam; of a        *)
(* registered team it answers with the team's 1-based position in the      *)
(* current visible order, the staleness warning being printed exactly when *)
(* the scoreboard is frozen and never replacing the answer; the query      *)
(* changes no state.                                                       *)
(***************************************************************************)
C12_Step ==
    \A n \in TwoTeams :
        query_ranking(n) =>
            /\ CoreUnchanged
            /\ IF n \notin DOMAIN teams
               THEN out'.msg = MsgRankUnknown /\ ~out'.warning
               ELSE /\ out'.msg = MsgRanking
                    /\ out'.team = n
                    /\ out'.ranking \in 1..Len(team_order)
                    /\ team_order[out'.ranking] = n
                    /\ out'.warning <=> is_frozen

C12_QueryRank == [][C12_Step]_vars

\* a rank query on a frozen scoreboard has just been answered with rank 2
\* and the warning, from an order that is no longer the sorted one
C12_Witness ==
    /\ out.msg = MsgRanking
    /\ out.warning
    /\ out.ranking = 2
    /\ is_frozen
    /\ ~Sorted(team_order)
    /\ teams[out.team].solved_problems = 1

(***************************************************************************)
(* C13: QuerySubmission of a registered team reports the entry of that     *)
(* team's history received last among those matching both filters ("ALL"   *)
(* matches everything), whatever the timestamps, or nothing when no entry  *)
(* matches; of an unregistered team it reports UnknownTeam; it changes no  *)
(* state.                                                                  *)
(***************************************************************************)
FilterOK(value, filter) == filter = "ALL" \/ value = filter

C13_Step ==
    \A n \in TwoTeams, p \in Problems \cup {"ALL"}, s \in Statuses \cup {"ALL"} :
        (out'.msg \in {MsgQueryDone, MsgQueryUnknown} /\ query_submission(n, p, s)) =>
            /\ CoreUnchanged
            /\ IF n \notin DOMAIN teams
               THEN out'.msg = MsgQueryUnknown /\ out'.found = << >>
               ELSE LET h == teams[n].submissions
                        M == { i \in 1..Len(h) :
                                  /\ FilterOK(h[i].problem_name, p)
                                  /\ FilterOK(h[i].status, s) }
                    IN /\ out'.msg = MsgQueryDone
                       /\ M = {} => out'.found = << >>
                       /\ M # {} =>
                             \E i \in M : /\ \A j \in M : j <= i
                                          /\ out'.found = << h[i] >>

C13_QuerySubmission == [][C13_Step]_vars

\* a query has just reported a team's second submission although its first
\* one carries the larger timestamp
C13_Witness ==
    /\ out.msg = MsgQueryDone
    /\ out.found # << >>
    /\ LET h == teams[out.found[1].team_name].submissions
       IN /\ Len(h) = 2
          /\ out.found[1] = h[2]
          /\ h[1].time > h[2].time
          /\ h[1].status = h[2].status

(***************************************************************************)
(* C14: the answer to QuerySubmission is determined by the RegisterTeam    *)
(* and Submit commands issued so far, in their order, and by nothing else: *)
(* it is a function of the set of registered names and of the log of       *)
(* accepted Submit commands; a RegisterTeam or Submit step updates these   *)
(* two from themselves and its arguments alone, and a Flush, Freeze or     *)
(* Scroll step leaves them as they are.  Two runs that agree on their      *)
(* RegisterTeam and Submit commands therefore agree on every answer,       *)
(* however Freeze, Scroll and Flush are interleaved.                       *)
(***************************************************************************)
RECURSIVE LogOf(_, _)
LogOf(log, n) ==
    IF log = << >> THEN << >>
    ELSE IF Last(log).team_name = n
         THEN Append(LogOf(Front(log), n), Last(log))
         ELSE LogOf(Front(log), n)

AnswerFromLog(registered, log, n, p, s) ==
    IF n \notin registered THEN Output(MsgQueryUnknown)
    ELSE LET h == LogOf(log, n)
             M == { i \in 1..Len(h) :
                       /\ FilterOK(h[i].problem_name, p)
                       /\ FilterOK(h[i].status, s) }
             last == CHOOSE i \in M : \A j \in M : j <= i
         IN [Output(MsgQueryDone) EXCEPT
                !.team = n,
                !.found = IF M = {} THEN << >> ELSE << h[last] >>]

C14_Step ==
    /\ out'.msg \in {MsgFlush, MsgFreezeOK, MsgFreezeFail, MsgScrollOK, MsgScrollFail} =>
          /\ DOMAIN teams' = DOMAIN teams
          /\ all_submissions' = all_submissions
    /\ \A n \in TwoTeams :
          (out'.msg \in {MsgAddOK, MsgAddDup} /\ add_team(n)) =>
              /\ DOMAIN teams' = DOMAIN teams \cup {n}
              /\ all_submissions' = all_submissions
    /\ \A n \in TwoTeams, p \in Problems, s \in Statuses, t \in Times :
          (out'.msg \in {MsgSubmitOK, MsgSubmitUnknown} /\ submit(n, p, s, t)) =>
              /\ DOMAIN teams' = DOMAIN teams
              /\ all_submissions' =
                    IF n \in DOMAIN teams
                    THEN Append(all_submissions, Submission(n, p, s, t))
                    ELSE all_submissions
    /\ \A n \in TwoTeams, p \in Problems \cup {"ALL"}, s \in Statuses \cup {"ALL"} :
          (out'.msg \in {MsgQueryDone, MsgQueryUnknown} /\ query_submission(n, p, s)) =>
              /\ out' = AnswerFromLog(DOMAIN teams, all_submissions, n, p, s)
              /\ DOMAIN teams' = DOMAIN teams
              /\ all_submissions' = all_submissions

C14_QueryIgnoresFreeze == [][C14_Step]_vars

\* a query has just been answered with a submission on a frozen scoreboard
\* whose visible order has been re-sorted away from the order of registration
C14_Witness ==
    /\ out.msg = MsgQueryDone
    /\ out.found # << >>
    /\ is_frozen
    /\ Len(team_order) = 2
    /\ StrLess(team_order[2], team_order[1])
    /\ teams[team_order[2]].submissions = << >>
    /\ Len(all_submissions) = 2

(***************************************************************************)
(* C15: once A and B are registered, A has submitted (p1, accepted, 10), B *)
(* has submitted (p1, wrong, 5) and then (p1, accepted, 15), and a Flush   *)
(* has run, A has solved 1 with penalty 10, B has solved 1 with penalty    *)
(* 35, and the visible order is A, B.                                      *)
(***************************************************************************)
ScenarioLog ==
    << Submission(NameA, "p1", "Accepted", 10),
       Submission(NameB, "p1", "Wrong_Answer", 5),
       Submission(NameB, "p1", "Accepted", 15) >>

ScenarioDone ==
    /\ DOMAIN teams = {NameA, NameB}
    /\ all_submissions = ScenarioLog
    /\ out.msg = MsgFlush

C15_Scenario ==
    ScenarioDone =>
        /\ teams[NameA].solved_problems = 1
        /\ teams[NameA].penalty_time = 10
        /\ teams[NameB].solved_problems = 1
        /\ teams[NameB].penalty_time = 35
        /\ team_order = <<NameA, NameB>>

\* the example has been played to its Flush on an unfrozen scoreboard
C15_Witness ==
    /\ ScenarioDone
    /\ ~is_frozen
    /\ teams[NameB].first_ac_time["p1"] = 15

(***************************************************************************)
(* C16: a QueryRank on a frozen scoreboard answers with the team's rank    *)
(* and the staleness warning; a successful Scroll of a visible order that  *)
(* is already sorted on the current ledgers keeps every registered team at *)
(* its rank and lifts the freeze; a QueryRank on the unfrozen scoreboard   *)
(* answers with the rank and no warning.  So the query repeated right      *)
(* after the Scroll returns the same rank without the warning.             *)
(***************************************************************************)
C16_Step ==
    /\ \A n \in DOMAIN teams :
          (out'.msg = MsgRanking /\ query_ranking(n)) =>
              /\ out'.ranking = RankIn(team_order, n)
              /\ out'.ranking >= 1
              /\ out'.warning <=> is_frozen
    /\ (out'.msg = MsgScrollOK /\ Sorted(team_order)) =>
          /\ ~is_frozen'
          /\ \A n \in DOMAIN teams :
                RankIn(team_order', n) = RankIn(team_order, n)

C16_RankAcrossScroll == [][C16_Step]_vars

\* a rank query has just been answered with the warning on a frozen
\* scoreboard of two teams with submissions whose visible order is the
\* sorted one
C16_Witness ==
    /\ out.msg = MsgRanking
    /\ out.warning
    /\ is_frozen
    /\ Len(team_order) = 2
    /\ Sorted(team_order)
    /\ teams[team_order[1]].solved_problems = 1

(***************************************************************************)
(* C17: for every team, the problems with a first-acceptance time are      *)
(* exactly the problems with an accepted submission in the history; the    *)
(* solved count is their number and the length of the solve-time           *)
(* collection; the collection holds exactly the first-acceptance times, in *)
(* descending order; and a first-acceptance time is never overwritten.     *)
(***************************************************************************)
Occurrences(seq, v) == Cardinality({ i \in 1..Len(seq) : seq[i] = v })

C17_Ledger ==
    \A n \in DOMAIN teams :
        LET team == teams[n]
            fat == team.first_ac_time
        IN /\ DOMAIN fat = SolvedIn(team.submissions)
           /\ team.solved_problems = Cardinality(DOMAIN fat)
           /\ team.solved_problems = Len(team.solve_times)
           /\ Descending(team.solve_times)
           /\ \A v \in Times :
                 Occurrences(team.solve_times, v) =
                     Cardinality({ p \in DOMAIN fat : fat[p] = v })
           /\ \A p \in DOMAIN fat :
                 fat[p] = team.submissions[FirstAcceptedAt(team.submissions, p)].time

C17_WrittenOnce ==
    \A n \in DOMAIN teams :
        \A p \in DOMAIN teams[n].first_ac_time :
            /\ p \in DOMAIN teams'[n].first_ac_time
            /\ teams'[n].first_ac_time[p] = teams[n].first_ac_time[p]

C17_Consistency == [] C17_Ledger /\ [][C17_WrittenOnce]_vars

\* a team solved p1 at time 0 and then p2 at time 20, and was accepted on
\* p1 once more at time 20
C17_Witness ==
    \E n \in DOMAIN teams :
        /\ teams[n].solve_times = <<20, 0>>
        /\ teams[n].first_ac_time["p1"] = 0
        /\ Len(teams[n].submissions) = 3
        /\ teams[n].submissions[3] = Submission(n, "p1", "Accepted", 20)

(***************************************************************************)
(* C18: in every step and for every team, the solved count and the total   *)
(* penalty do not decrease and no per-problem wrong-submission counter     *)
(* decreases or disappears.                                                *)
(***************************************************************************)
C18_Step ==
    \A n \in DOMAIN teams :
        /\ teams'[n].solved_problems >= teams[n].solved_problems
        /\ teams'[n].penalty_time >= teams[n].penalty_time
        /\ \A p \in DOMAIN teams[n].wrong_submissions :
              /\ p \in DOMAIN teams'[n].wrong_submissions
              /\ teams'[n].wrong_submissions[p] >= teams[n].wrong_submissions[p]

C18_Monotone == [][C18_Step]_vars

\* a team was rejected on a problem, solved it, and was rejected on it again
C18_Witness ==
    \E n \in DOMAIN teams :
        /\ "p2" \in DOMAIN teams[n].first_ac_time
        /\ teams[n].wrong_submissions["p2"] = 2
        /\ teams[n].penalty_time = 40
        /\ teams[n].submissions[Len(teams[n].submissions)].status = "Wrong_Answer"

(***************************************************************************)
(* C19 as stated: between a successful Freeze and the next successful      *)
(* Scroll no step changes the visible order.                               *)
(***************************************************************************)
C19_FrozenOrderFixed ==
    [][(is_frozen /\ is_frozen') => team_order' = team_order]_vars

(***************************************************************************)
(* C19 amended: while the scoreboard is frozen the visible order is        *)
(* changed only by a Flush, which re-sorts it, and by a successful         *)
(* RegisterTeam, which appends the new name; Submit, Freeze, rejected      *)
(* commands and the queries leave it, and with it every QueryRank answer,  *)
(* as it is; the Scroll that ends the freeze leaves the order sorted on    *)
(* the current ledgers, all ledger changes showing at once.                *)
(***************************************************************************)
C19_Step ==
    is_frozen =>
        /\ out'.msg \notin {MsgFlush, MsgAddOK, MsgScrollOK} =>
              /\ team_order' = team_order
              /\ \A n \in DOMAIN teams :
                    RankIn(team_order', n) = RankIn(team_order, n)
        /\ out'.msg = MsgAddOK =>
              SubSeq(team_order', 1, Len(team_order)) = team_order
        /\ out'.msg \in {MsgFlush, MsgScrollOK} =>
              /\ team_order' = update_scoreboard(teams, team_order)
              /\ \A i \in 1..Len(team_order'), j \in 1..Len(team_order') :
                    i < j => compare_teams(teams', team_order'[i], team_order'[j])
        /\ out'.msg = MsgScrollOK <=> ~is_frozen'

C19_FrozenOrder == [][C19_Step]_vars

\* a rank query on a frozen scoreboard has just answered rank 1 for a team
\* that the current ledgers would rank second
C19_Witness ==
    /\ out.msg = MsgRanking
    /\ out.warning
    /\ out.ranking = 1
    /\ Len(team_order) = 2
    /\ compare_teams(teams, team_order[2], team_order[1])

(***************************************************************************)
(* C20: the visible order is a permutation of the registered teams: every  *)
(* registered team occurs in it exactly once and no other name occurs, so  *)
(* the rank of a registered team lies between 1 and the number of          *)
(* registered teams and distinct teams have distinct ranks.                *)
(***************************************************************************)
C20_Permutation ==
    LET R == DOMAIN teams
    IN /\ Len(team_order) = Cardinality(R)
       /\ \A i \in 1..Len(team_order) : team_order[i] \in R
       /\ \A n \in R : Occurrences(team_order, n) = 1
       /\ \A n \in R : RankIn(team_order, n) \in 1..Cardinality(R)
       /\ \A n \in R, m \in R :
             n # m => RankIn(team_order, n) # RankIn(team_order, m)

\* three teams after a Scroll that has moved the team with the largest name
\* to the top
C20_Witness ==
    /\ out.msg = MsgScrollOK
    /\ team_order = <<NameB, NameA, NameAA>>
    /\ teams[NameB].solved_problems = 1

====
